---- MODULE Spec2Model ----
(***************************************************************************)
(* Model of the picture-book server (server.py) and of the external story  *)
(* generator it launches (story_generator_V2.py).                          *)
(*                                                                         *)
(*   Spec        generate_story handlers running concurrently with the     *)
(*               generator processes they launch, over the shared story    *)
(*               directory, test.md and .env                               *)
(*   FairSpec    Spec with the fairness the threads and the clock have     *)
(*   SpeechSpec  one run of generate_speech_baidu against the provider     *)
(*   ExtractSpec extract_plain_text applied to bounded markdown inputs     *)
(***************************************************************************)
EXTENDS Integers, Sequences, FiniteSets, TLC

(***************************************************************************)
(* Bounds of the model.                                                    *)
(***************************************************************************)
\* number of generate_story requests handled concurrently
NumReq == 2
\* seconds the clock advances in one Tick (the resolution of the model's clock)
ClockStep == 1350
\* number of markdown tokens a text given to extract_plain_text is made of
MaxTokens == 4

(***************************************************************************)
(* Program constants.                                                      *)
(***************************************************************************)
max_wait_time == 2700
PollSleep == 5
\* generate_speech_baidu
MaxTextLength == 10000
\* a loop of one more query, and one of one query less
max_retries_more == 30 + 1
max_retries_fewer == 30 - 1
max_retries == 30
max_length == 500
retry_interval == 3

Requests == 1..NumReq

\* request bodies: data.get('theme', ''), data.get('language', 'zh'),
\* data.get('forbidden_words', '')
Body(theme, language, words) ==
    [theme |-> theme, language |-> language, forbidden_words |-> words]

RequestBodies ==
    { Body(<< >>, "zh", {}),
      Body(<<"a">>, "zh", {}),
      Body(<<"a", "b">>, "en", {"x"}) }
\* os.getenv("FORBIDDEN_KEYWORDS", ...) of the server process
BaselineForbidden == {"nsfw"}

\* .env when the server starts: the two keys generate_story rewrites and one
\* of the keys it does not
InitialEnv ==
    [OUTPUT_LANG |-> "zh", FORBIDDEN_KEYWORDS |-> BaselineForbidden,
     BAIDU_API_KEY |-> "api_key"]

NoEnv == [OUTPUT_LANG |-> "", FORBIDDEN_KEYWORDS |-> {}, BAIDU_API_KEY |-> ""]

NoFile == [title |-> << >>, stamp |-> 0]
NoResp == [code |-> 0, file |-> NoFile, is_cached |-> FALSE, error |-> ""]

VARIABLES
    files,      \* generated_stories/*.md: set of [name, mtime, content, by]
    env,        \* .env: [OUTPUT_LANG, FORBIDDEN_KEYWORDS]
    testmd,     \* test.md: the theme handed to the generator
    now,        \* the latest timestamp given out (datetime.now(), mtime)
    req,        \* per request: the locals of generate_story
    proc,       \* per request: the generator process it launched
    speech,     \* the locals of one run of generate_speech_baidu
    md,         \* a markdown text and what extract_plain_text makes of it
    audio,      \* the locals of generate_audio
    doc         \* a story and what process_markdown_with_images makes of it

storyVars == <<files, env, testmd, now, req, proc>>
vars == <<files, env, testmd, now, req, proc, speech, md, audio, doc>>

(***************************************************************************)
(* File names and glob matching.                                           *)
(***************************************************************************)
DigitChar == <<"0", "1", "2", "3", "4", "5", "6", "7", "8", "9">>

\* the decimal digits of n, as strftime prints a timestamp
RECURSIVE Digits(_)
Digits(n) ==
    IF n < 10 THEN <<DigitChar[n + 1]>>
    ELSE Append(Digits(n \div 10), DigitChar[(n % 10) + 1])

\* f"{title}_{timestamp}.md" without its extension
Stem(name) == name.title \o <<"_">> \o Digits(name.stamp)

\* fnmatch of f"*{theme}*.md": the theme occurs in the stem
Contains(s, t) ==
    \E i \in 1..(Len(s) - Len(t) + 1) : SubSeq(s, i, i + Len(t) - 1) = t

ThemeFiles(dir, theme) == {f \in dir : Contains(Stem(f.name), theme)}

\* a max() that was written min(): the oldest file
Latest_oldest(fs) == {f \in fs : \A g \in fs : f.mtime <= g.mtime}

\* max(fs, key=os.path.getmtime): the files of fs with the greatest mtime
Latest(fs) == {f \in fs : \A g \in fs : g.mtime <= f.mtime}


(***************************************************************************)
(* Initial state: the server is up, no request has arrived yet.  The story *)
(* directory may hold files of earlier runs.                               *)
(***************************************************************************)
OldFile(title, stamp, content) ==
    [name |-> [title |-> title, stamp |-> stamp], mtime |-> stamp,
     content |-> content, by |-> 0]

InitialDirs ==
    { {},
      {OldFile(<<"a">>, 1, "full"), OldFile(<<"a", "b">>, 2, "empty")} }

IdleReq ==
    [pc |-> "idle", theme |-> << >>, language |-> "zh", forbidden |-> {},
     setting |-> <<"", "">>, content |-> NoEnv,
     updates |-> << >>, before |-> {}, process_start_time |-> 0,
     start_time |-> 0, waited |-> 0, sleeping |-> 0,
     new_file_found |-> FALSE, new_story_file |-> NoFile,
     launched |-> FALSE, resp |-> NoResp]

NoProc == [pc |-> "none", theme |-> << >>, file |-> NoFile]

NoCalls == [token |-> 0, create |-> 0, query |-> 0, download |-> 0, short |-> 0]
NoOutput == [written |-> FALSE, bytes |-> << >>]

IdleSpeech ==
    [pc |-> "idle", input |-> << >>, text |-> << >>, plan |-> "all",
     token |-> "", token_response |-> "", create_text |-> << >>,
     create_response |-> "", i |-> 0, slept |-> 0, query_response |-> "",
     short_path |-> FALSE,
     text_parts |-> << >>, part |-> 0, sent |-> << >>,
     all_audio_data |-> << >>,
     output |-> NoOutput, ret |-> "none", raised |-> << >>,
     calls |-> NoCalls]

IdleMd == [pc |-> "idle", input |-> << >>, once |-> << >>, twice |-> << >>]

NoAudioResp == [code |-> 0, audio_url |-> FALSE, error |-> << >>]

IdleAudio ==
    [pc |-> "idle", text |-> << >>, probed |-> FALSE, runs |-> 0,
     creates |-> 0, written |-> FALSE, resp |-> NoAudioResp]

IdleDoc ==
    [pc |-> "idle", paragraphs |-> << >>, image_url_dict |-> {},
     html_parts |-> << >>]

StoryInit ==
    /\ files \in InitialDirs
    /\ env = InitialEnv
    /\ testmd = << >>
    /\ now = 2
    /\ req = [r \in Requests |-> IdleReq]
    /\ proc = [r \in Requests |-> NoProc]
    /\ speech = IdleSpeech
    /\ md = IdleMd
    /\ audio = IdleAudio
    /\ doc = IdleDoc

\* return jsonify(...), code: the handler's locals end with the call
Respond(q, code, file, cached, error) ==
    [IdleReq EXCEPT !.pc = "done",
                    !.theme = q.theme,
                    !.language = q.language,
                    !.forbidden = q.forbidden,
                    !.launched = q.launched,
                    !.resp = [code |-> code, file |-> file, is_cached |-> cached,
                              error |-> error]]

Names(dir) == {f.name : f \in dir}

(***************************************************************************)
(* generate_story, lines 78-140: the request arrives and is validated,     *)
(* then an existing story of the theme is looked for.  A file that is      *)
(* empty after strip() is not used: the handler goes on to generate.       *)
(***************************************************************************)
\* a lookup that answers from the file without marking the answer as cached
CacheLookup_fresh(q) ==
    LET existing_theme_files == ThemeFiles(files, q.theme)
    IN IF existing_theme_files # {}
       THEN {IF latest_story.content = "full"
             THEN Respond(q, 200, latest_story.name, FALSE, "")
             ELSE [q EXCEPT !.pc = "update_env"] :
                latest_story \in Latest(existing_theme_files)}
       ELSE {[q EXCEPT !.pc = "update_env"]}

CacheLookup(q) ==
    LET existing_theme_files == ThemeFiles(files, q.theme)
    IN IF existing_theme_files # {}
       THEN {IF latest_story.content = "full"
             THEN Respond(q, 200, latest_story.name, TRUE, "")
             ELSE [q EXCEPT !.pc = "update_env"] :
                latest_story \in Latest(existing_theme_files)}
       ELSE {[q EXCEPT !.pc = "update_env"]}

\* a handler that persists the language before it looks for an existing story
Arrive_update_first(r) ==
    /\ req[r].pc = "idle"
    /\ \E data \in RequestBodies :
          LET q == [req[r] EXCEPT !.theme = data.theme,
                                  !.language = data.language,
                                  !.forbidden = data.forbidden_words]
          IN IF data.theme = << >>
             THEN /\ req' = [req EXCEPT ![r] =
                               Respond(q, 400, NoFile, FALSE, "empty theme")]
                  /\ env' = env
             ELSE /\ \E q2 \in CacheLookup(q) : req' = [req EXCEPT ![r] = q2]
                  /\ env' = [env EXCEPT !.OUTPUT_LANG = data.language]
    /\ UNCHANGED <<files, testmd, now, proc, speech, md, audio, doc>>

Arrive(r) ==
    /\ req[r].pc = "idle"
    /\ \E data \in RequestBodies :
          LET q == [req[r] EXCEPT !.theme = data.theme,
                                  !.language = data.language,
                                  !.forbidden = data.forbidden_words]
          IN IF data.theme = << >>
             THEN req' = [req EXCEPT ![r] =
                            Respond(q, 400, NoFile, FALSE, "empty theme")]
             ELSE \E q2 \in CacheLookup(q) : req' = [req EXCEPT ![r] = q2]
    /\ UNCHANGED <<files, env, testmd, now, proc, speech, md, audio, doc>>

(***************************************************************************)
(* update_env_setting, lines 406-425: the key's line of .env is replaced   *)
(* (or appended) and every other line is written back as it was read.      *)
(***************************************************************************)
\* a rewrite that loses the value of a line it did not match
update_env_setting_drop(content, key, value) ==
    [[content EXCEPT ![key] = value] EXCEPT !.BAIDU_API_KEY = ""]

update_env_setting(content, key, value) == [content EXCEPT ![key] = value]

\* lines 145-159: the request's words joined to os.getenv("FORBIDDEN_KEYWORDS")
new_forbidden_words(words) == BaselineForbidden \cup words

\* an update that persists the language and leaves the words out
UpdateEnv_lang_only(r) ==
    /\ req[r].pc = "update_env"
    /\ env' = update_env_setting(env, "OUTPUT_LANG", req[r].language)
    /\ req' = [req EXCEPT
                 ![r].updates = <<<<"OUTPUT_LANG", req[r].language>>>>,
                 ![r].pc = "write_theme"]
    /\ UNCHANGED <<files, testmd, now, proc, speech, md, audio, doc>>

(***************************************************************************)
(* generate_story, lines 142-160: OUTPUT_LANG, and FORBIDDEN_KEYWORDS when *)
(* the request carries words, are persisted to .env.                       *)
(***************************************************************************)
UpdateEnv(r) ==
    /\ req[r].pc = "update_env"
    /\ LET lang == update_env_setting(env, "OUTPUT_LANG", req[r].language)
           words == new_forbidden_words(req[r].forbidden)
       IN IF req[r].forbidden # {}
          THEN /\ env' = update_env_setting(lang, "FORBIDDEN_KEYWORDS", words)
               /\ req' = [req EXCEPT
                            ![r].updates = <<<<"OUTPUT_LANG", req[r].language>>,
                                             <<"FORBIDDEN_KEYWORDS", words>>>>,
                            ![r].pc = "write_theme"]
          ELSE /\ env' = lang
               /\ req' = [req EXCEPT
                            ![r].updates = <<<<"OUTPUT_LANG", req[r].language>>>>,
                            ![r].pc = "write_theme"]
    /\ UNCHANGED <<files, testmd, now, proc, speech, md, audio, doc>>

\* a hand-off that leaves a theme that is already in test.md in place
WriteTheme_keep(r) ==
    /\ req[r].pc = "write_theme"
    /\ testmd' = IF testmd = << >> THEN req[r].theme ELSE testmd
    /\ req' = [req EXCEPT ![r].pc = "clock"]
    /\ UNCHANGED <<files, env, now, proc, speech, md, audio, doc>>

(***************************************************************************)
(* The same lines 142-160 read by read: each call of update_env_setting    *)
(* reads .env (lines 410-411) and writes the whole file back (lines        *)
(* 424-425), and other requests run between the two.                       *)
(***************************************************************************)
\* lines 143 and 159, then 410-411: update_env_setting is called and reads .env
EnvRead(r) ==
    /\ req[r].pc \in {"update_env", "update_words"}
    /\ req' = [req EXCEPT
                 ![r].setting =
                     IF req[r].pc = "update_env"
                     THEN <<"OUTPUT_LANG", req[r].language>>
                     ELSE <<"FORBIDDEN_KEYWORDS",
                            new_forbidden_words(req[r].forbidden)>>,
                 ![r].content = env,
                 ![r].pc = "env_write"]
    /\ UNCHANGED <<files, env, testmd, now, proc, speech, md, audio, doc>>

\* lines 413-425: the text that was read is written back with the key's line
\* replaced; line 146: the words follow when the request carries some
EnvWrite(r) ==
    /\ req[r].pc = "env_write"
    /\ env' = update_env_setting(req[r].content, req[r].setting[1],
                                 req[r].setting[2])
    /\ req' = [req EXCEPT
                 ![r].updates = Append(@, req[r].setting),
                 ![r].pc = IF /\ req[r].setting[1] = "OUTPUT_LANG"
                              /\ req[r].forbidden # {}
                           THEN "update_words" ELSE "write_theme"]
    /\ UNCHANGED <<files, testmd, now, proc, speech, md, audio, doc>>

(***************************************************************************)
(* lines 162-164: the theme is written to test.md.                         *)
(***************************************************************************)
WriteTheme(r) ==
    /\ req[r].pc = "write_theme"
    /\ testmd' = req[r].theme
    /\ req' = [req EXCEPT ![r].pc = "clock"]
    /\ UNCHANGED <<files, env, now, proc, speech, md, audio, doc>>

\* line 167: process_start_time = datetime.now(), read before the snapshot
StartClock(r) ==
    /\ req[r].pc = "clock"
    /\ req' = [req EXCEPT ![r].process_start_time = now, ![r].pc = "launch"]
    /\ UNCHANGED <<files, env, testmd, now, proc, speech, md, audio, doc>>

\* a loop that measures the wait from the last scan: start_time set in the loop
PollCheck_restart(q) ==
    [q EXCEPT !.pc = "sleep", !.sleeping = PollSleep, !.waited = 0]

\* line 204 and line 206: the loop condition on time.time() - start_time,
\* then time.sleep(5)
PollCheck(q) ==
    IF q.waited < max_wait_time
    THEN [q EXCEPT !.pc = "sleep", !.sleeping = PollSleep]
    ELSE [q EXCEPT !.pc = "timeout"]

(***************************************************************************)
(* lines 170-206: the snapshot story_files_before is taken, the script is  *)
(* looked up and started with Popen (nothing of the process is kept), and  *)
(* the poll loop is entered at start_time.  A missing script raises        *)
(* FileNotFoundError, answered by the handler at lines 311-314.            *)
(***************************************************************************)
Launch(r) ==
    /\ req[r].pc = "launch"
    /\ \E script_exists \in BOOLEAN :
          IF script_exists
          THEN /\ proc' = [proc EXCEPT ![r] = [NoProc EXCEPT !.pc = "start"]]
               /\ req' = [req EXCEPT ![r] =
                            PollCheck([req[r] EXCEPT
                                         !.before = Names(files),
                                         !.start_time = now,
                                         !.launched = TRUE,
                                         !.waited = 0])]
          ELSE /\ req' = [req EXCEPT ![r] =
                            Respond(req[r], 500, NoFile, FALSE, "exception")]
               /\ UNCHANGED proc
    /\ UNCHANGED <<files, env, testmd, now, speech, md, audio, doc>>

\* a guard that asks for two more files than the snapshot had
NewFiles_grown(dir, before) ==
    IF Cardinality(Names(dir)) > Cardinality(before) + 1
    THEN {f \in dir : f.name \notin before} ELSE {}

\* lines 211-219: the files that are not in story_files_before
NewFiles(dir, before) ==
    IF Cardinality(Names(dir)) > Cardinality(before)
    THEN {f \in dir : f.name \notin before}
    ELSE {}

\* lines 221-229: theme files that are new or modified after process_start_time
FreshThemeFiles(dir, theme, before, process_start_time) ==
    {f \in ThemeFiles(dir, theme) :
        f.name \notin before \/ f.mtime > process_start_time}

(***************************************************************************)
(* lines 208-232: one scan of the story directory after the sleep.         *)
(***************************************************************************)
PollScan(r) ==
    /\ req[r].pc = "sleep"
    /\ req[r].sleeping = 0
    /\ LET new_files == NewFiles(files, req[r].before)
           theme_files == FreshThemeFiles(files, req[r].theme, req[r].before,
                                          req[r].process_start_time)
           found(f) == [req[r] EXCEPT !.new_story_file = f.name,
                                      !.new_file_found = TRUE,
                                      !.pc = "read"]
       IN IF new_files # {}
          THEN \E f \in Latest(new_files) : req' = [req EXCEPT ![r] = found(f)]
          ELSE IF theme_files # {}
          THEN \E f \in theme_files : req' = [req EXCEPT ![r] = found(f)]
          ELSE req' = [req EXCEPT ![r] = PollCheck(req[r])]
    /\ UNCHANGED <<files, env, testmd, now, proc, speech, md, audio, doc>>

\* a last scan that takes the latest story of any theme, as lines 253-262 do
Timeout_any(r) ==
    /\ req[r].pc = "timeout"
    /\ IF files # {}
       THEN \E f \in Latest(files) :
               req' = [req EXCEPT ![r].new_story_file = f.name,
                                  ![r].pc = "read"]
       ELSE req' = [req EXCEPT ![r] =
                      Respond(req[r], 500, NoFile, FALSE, "no story")]
    /\ UNCHANGED <<files, env, testmd, now, proc, speech, md, audio, doc>>

(***************************************************************************)
(* lines 239-247: the wait budget is used up; one last scan for any file   *)
(* of the theme.                                                           *)
(***************************************************************************)
Timeout(r) ==
    /\ req[r].pc = "timeout"
    /\ LET theme_files == ThemeFiles(files, req[r].theme)
       IN IF theme_files # {}
          THEN \E f \in Latest(theme_files) :
                  req' = [req EXCEPT ![r].new_story_file = f.name,
                                     ![r].pc = "read"]
          ELSE req' = [req EXCEPT ![r] =
                         Respond(req[r], 504, NoFile, FALSE, "timeout")]
    /\ UNCHANGED <<files, env, testmd, now, proc, speech, md, audio, doc>>

\* a read that renders whatever the file holds
ReadStory_serves_empty(r) ==
    /\ req[r].pc = "read"
    /\ LET latest_story == req[r].new_story_file
           story == {f \in files : f.name = latest_story}
       IN req' = [req EXCEPT ![r] =
                    IF story = {}
                    THEN Respond(req[r], 500, latest_story, FALSE, "unreadable")
                    ELSE Respond(req[r], 200, latest_story, FALSE, "")]
    /\ UNCHANGED <<files, env, testmd, now, proc, speech, md, audio, doc>>

(***************************************************************************)
(* lines 249-309: the chosen file is read; empty content is an error.      *)
(***************************************************************************)
ReadStory(r) ==
    /\ req[r].pc = "read"
    /\ LET latest_story == req[r].new_story_file
           story == {f \in files : f.name = latest_story}
       IN req' = [req EXCEPT ![r] =
                    IF story = {}
                    THEN Respond(req[r], 500, latest_story, FALSE, "unreadable")
                    ELSE IF \E f \in story : f.content = "empty"
                    THEN Respond(req[r], 500, latest_story, FALSE, "empty content")
                    ELSE Respond(req[r], 200, latest_story, FALSE, "")]
    /\ UNCHANGED <<files, env, testmd, now, proc, speech, md, audio, doc>>

(***************************************************************************)
(* story_generator_V2.py main(): the process started by request r.         *)
(***************************************************************************)
\* lines 1138-1187: the last non-empty line of test.md is the theme; the story
\* is generated and formatted, or that fails and nothing is saved
GenStory(r) ==
    /\ proc[r].pc = "start"
    /\ \E ok \in BOOLEAN :
          proc' = [proc EXCEPT ![r] =
                     IF testmd = << >> \/ ~ok
                     THEN [NoProc EXCEPT !.pc = "exit"]
                     ELSE [proc[r] EXCEPT !.pc = "save", !.theme = testmd]]
    /\ UNCHANGED <<files, env, testmd, now, req, speech, md, audio, doc>>

\* save_formatted_story, lines 1088-1092: open(filepath, 'w') creates the file
GenOpenFile(r) ==
    /\ proc[r].pc = "save"
    /\ LET name == [title |-> proc[r].theme, stamp |-> now + 1]
       IN /\ files' = {f \in files : f.name # name} \cup
                        {[name |-> name, mtime |-> now + 1, content |-> "empty",
                          by |-> r]}
          /\ proc' = [proc EXCEPT ![r].pc = "write", ![r].file = name]
    /\ now' = now + 1
    /\ UNCHANGED <<env, testmd, req, speech, md, audio, doc>>

\* save_formatted_story, lines 1092-1093: the text is written and the file closed
GenWriteFile(r) ==
    /\ proc[r].pc = "write"
    /\ files' = {f \in files : f.name # proc[r].file} \cup
                  {[name |-> proc[r].file, mtime |-> now + 1, content |-> "full",
                    by |-> r]}
    /\ proc' = [proc EXCEPT ![r] = [NoProc EXCEPT !.pc = "exit"]]
    /\ now' = now + 1
    /\ UNCHANGED <<env, testmd, req, speech, md, audio, doc>>

(***************************************************************************)
(* Time.  Timestamps (datetime.now(), os.path.getmtime) are only compared  *)
(* with each other, so the model keeps their order: every write of a file  *)
(* gets the next timestamp.  Durations (time.time() - start_time, the      *)
(* sleep) are counted in seconds per handler and advance in steps of       *)
(* ClockStep.  The code a handler runs between two sleeps takes far less   *)
(* than one step, so a step passes only when every handler that has        *)
(* started is asleep or done.                                              *)
(***************************************************************************)
Elapse(q) ==
    IF q.pc = "sleep"
    THEN [q EXCEPT !.waited = q.waited + ClockStep,
                   !.sleeping = IF q.sleeping > ClockStep
                                THEN q.sleeping - ClockStep ELSE 0]
    ELSE q

Tick ==
    /\ \E r \in Requests : req[r].pc = "sleep"
    /\ \A r \in Requests :
          \/ req[r].pc \in {"idle", "done"}
          \/ req[r].pc = "sleep" /\ req[r].sleeping > 0
    /\ req' = [r \in Requests |-> Elapse(req[r])]
    /\ UNCHANGED <<files, env, testmd, now, proc, speech, md, audio, doc>>

Handler(r) ==
    \/ Arrive(r)
    \/ UpdateEnv(r)
    \/ WriteTheme(r)
    \/ StartClock(r)
    \/ Launch(r)
    \/ PollScan(r)
    \/ Timeout(r)
    \/ ReadStory(r)

Generator(r) ==
    \/ GenStory(r)
    \/ GenOpenFile(r)
    \/ GenWriteFile(r)

Next ==
    \/ \E r \in Requests : Handler(r)
    \/ \E r \in Requests : Generator(r)
    \/ Tick

Spec == StoryInit /\ [][Next]_vars

(***************************************************************************)
(* Fairness: the clock goes on and a handler thread that can take a step   *)
(* takes it.  Nothing is assumed of the arrival of requests nor of the     *)
(* generator processes, which may hang or die at any point.                *)
(***************************************************************************)
HandlerStep(r) ==
    \/ UpdateEnv(r)
    \/ WriteTheme(r)
    \/ StartClock(r)
    \/ Launch(r)
    \/ PollScan(r)
    \/ Timeout(r)
    \/ ReadStory(r)

FairSpec ==
    /\ StoryInit
    /\ [][Next]_vars
    /\ WF_vars(Tick)
    /\ \A r \in Requests : WF_vars(HandlerStep(r))

(***************************************************************************)
(* Properties of generate_story.                                           *)
(***************************************************************************)
InFlight(r) == req[r].pc \notin {"idle", "done"}

\* C1: of the requests in flight for one theme at the same time, at most one
\* has launched a generator process.
C1_SingleFlight ==
    \A r1, r2 \in Requests :
        (/\ r1 # r2
         /\ InFlight(r1) /\ InFlight(r2)
         /\ req[r1].theme = req[r2].theme)
        => ~(req[r1].launched /\ req[r2].launched)

ArrivesAt(r) == req[r].pc = "idle" /\ req'[r].pc # "idle"

MatchingFiles(theme) ==
    {f \in files :
        \E i \in 1..Len(Stem(f.name)) :
            /\ i + Len(theme) - 1 <= Len(Stem(f.name))
            /\ \A k \in 1..Len(theme) : Stem(f.name)[i + k - 1] = theme[k]}

NewestMatching(theme) ==
    {f \in MatchingFiles(theme) :
        \A g \in MatchingFiles(theme) : g.mtime <= f.mtime}

AnsweredFromNewest(r) ==
    /\ req'[r].pc = "done"
    /\ req'[r].resp.code = 200
    /\ req'[r].resp.is_cached
    /\ req'[r].resp.file \in {f.name : f \in NewestMatching(req'[r].theme)}
    /\ ~req'[r].launched

\* C2 as stated: a request that arrives while a story file whose name contains
\* its theme exists is answered from the most recently modified such file and
\* launches no process.
C2_CacheHit ==
    [][\A r \in Requests :
          (ArrivesAt(r) /\ MatchingFiles(req'[r].theme) # {})
          => AnsweredFromNewest(r)]_vars

\* C2 amended: a request with a non-empty theme that arrives while a story file
\* whose name contains the theme exists, the most recently modified of them
\* having non-blank content, is answered from that file and launches no
\* process.
C2_CacheHitNonBlank ==
    [][\A r \in Requests :
          (/\ ArrivesAt(r)
           /\ req'[r].theme # << >>
           /\ MatchingFiles(req'[r].theme) # {}
           /\ \A f \in NewestMatching(req'[r].theme) : f.content = "full")
          => AnsweredFromNewest(r)]_vars

\* a request was answered from the newer of two stories of its theme
C2_Witness ==
    \E r \in Requests :
        /\ req[r].pc = "done" /\ req[r].resp.is_cached
        /\ \E f, g \in MatchingFiles(req[r].theme) :
              /\ f.name = req[r].resp.file
              /\ g.mtime < f.mtime

\* C4: a request that has started is answered in the end, also when the
\* generator process never writes a file.
C4_Returns ==
    \A r \in Requests : InFlight(r) ~> (req[r].pc = "done")

\* the wait budget of a request has run out and its process has done nothing
C4_Witness ==
    \E r \in Requests : req[r].pc = "timeout" /\ proc[r].pc = "start"

\* C5: when the budget is used up without a match and the last scan finds no
\* file of the theme, the request ends with 504 and no story.
C5_TimeoutError ==
    [][\A r \in Requests :
          (/\ req[r].pc = "timeout"
           /\ req'[r] # req[r]
           /\ MatchingFiles(req[r].theme) = {})
          => (/\ req'[r].pc = "done"
              /\ req'[r].resp.code = 504
              /\ req'[r].resp.file = NoFile)]_vars

\* a request that launched a process ended with the timeout error
C5_Witness ==
    \E r \in Requests :
        req[r].pc = "done" /\ req[r].launched /\ req[r].resp.code = 504

\* C6: a request that launched a process, running next to requests for other
\* themes, answers with a file its own process wrote.
C6_OwnArtifact ==
    \A r \in Requests :
        (/\ req[r].pc = "done" /\ req[r].launched /\ req[r].resp.code = 200
         /\ \A r2 \in Requests \ {r} :
               req[r2].pc = "idle" \/ req[r2].theme # req[r].theme)
        => \A f \in files : f.name = req[r].resp.file => f.by = r

\* a poll iteration of request r: the scan after a sleep has ended
Scans(r) ==
    /\ req[r].pc = "sleep" /\ req[r].sleeping = 0
    /\ req'[r] # req[r]

\* the story files whose names the snapshot of request r does not hold
Unseen(r) == {f \in files : f.name \notin req[r].before}

C26_ThemeRule ==
    [][\A r \in Requests :
          (/\ Scans(r)
           /\ req'[r].pc = "read"
           /\ req'[r].new_story_file \in req[r].before)
          => \E f \in MatchingFiles(req[r].theme) :
                /\ f.name = req'[r].new_story_file
                /\ f.mtime > req[r].start_time]_vars

\* the generator process of request r is started
Launches(r) == proc[r].pc # "start" /\ proc'[r].pc = "start"

Written(r) == {req[r].updates[k] : k \in 1..Len(req[r].updates)}

\* C27: when the generator process of a request is started, the request has
\* started none before, the snapshot is the story directory of that moment,
\* and the request's language and forbidden words have been written to .env.
C27_LaunchOrder ==
    [][\A r \in Requests :
          Launches(r)
          => /\ proc[r].pc = "none" /\ ~req[r].launched /\ req'[r].launched
             /\ req'[r].before = Names(files)
             /\ <<"OUTPUT_LANG", req[r].language>> \in Written(r)
             /\ req[r].forbidden # {}
                => <<"FORBIDDEN_KEYWORDS",
                     BaselineForbidden \cup req[r].forbidden>> \in Written(r)]_vars

\* a request with forbidden words has started its process next to files that
\* were in the directory before
C27_Witness ==
    \E r \in Requests :
        /\ proc[r].pc = "start" /\ req[r].launched
        /\ req[r].forbidden # {}
        /\ req[r].before # {}

\* lines 301-309: the response of a request whose poll found a new story
FreshResponse(file) ==
    [code |-> 200, file |-> file, is_cached |-> FALSE, error |-> ""]

\* C28: a request whose budget is used up while a file of its theme exists is
\* answered from the most recently modified such file and not with the timeout
\* error, and its response differs from the response of a fresh generation.
C28_StaleCaveat ==
    [][\A r \in Requests :
          /\ (/\ req[r].pc = "timeout"
              /\ req'[r] # req[r]
              /\ MatchingFiles(req[r].theme) # {})
             => /\ req'[r].pc = "read"
                /\ req'[r].new_story_file \in
                      {f.name : f \in NewestMatching(req[r].theme)}
          /\ (/\ req[r].pc = "read"
              /\ ~req[r].new_file_found
              /\ req'[r].pc = "done")
             => /\ req'[r].resp.code # 504
                /\ req'[r].resp.code = 200
                   => req'[r].resp # FreshResponse(req[r].new_story_file)]_vars

\* C29: when the file that was chosen holds nothing but blanks, the request
\* ends with the empty-content error 500, which is not the timeout error, and
\* with no story.
C29_EmptyContent ==
    [][\A r \in Requests :
          (/\ req[r].pc = "read"
           /\ req'[r] # req[r]
           /\ \E f \in files : /\ f.name = req[r].new_story_file
                               /\ f.content = "empty")
          => /\ req'[r].pc = "done"
             /\ req'[r].resp.code = 500
             /\ req'[r].resp.error = "empty content"
             /\ req'[r].resp.error # "timeout"]_vars

\* a request that launched a process ended with the empty-content error
C29_Witness ==
    \E r \in Requests :
        /\ req[r].pc = "done" /\ req[r].launched
        /\ req[r].resp.code = 500
        /\ req[r].resp.error = "empty content"

\* C30: the handler reads no file that a generator process has opened and not
\* yet written.
C30_NoPartialRead ==
    [][\A r \in Requests :
          (req[r].pc = "read" /\ req'[r].pc = "done")
          => ~\E p \in Requests :
                 /\ proc[p].pc = "write"
                 /\ proc[p].file = req[r].new_story_file]_vars

\* C31: when a request starts its generator process, the OUTPUT_LANG that is
\* persisted in .env is the language of that request.
C31_OwnLanguage ==
    [][\A r \in Requests :
          Launches(r) => env.OUTPUT_LANG = req[r].language]_vars

\* C34: a request that is answered from an existing story file changes
\* neither .env nor test.md nor the story directory and starts no process.
C34_CacheHitReadOnly ==
    [][\A r \in Requests :
          (ArrivesAt(r) /\ req'[r].resp.is_cached)
          => /\ env' = env /\ testmd' = testmd /\ files' = files
             /\ proc' = proc
             /\ ~req'[r].launched
             /\ req'[r].pc = "done"]_vars

\* a request was answered from an existing story after another request had
\* changed the language and the forbidden words
C34_Witness ==
    \E r \in Requests :
        /\ req[r].pc = "done" /\ req[r].resp.is_cached
        /\ req[r].language = "zh"
        /\ env.OUTPUT_LANG = "en"
        /\ "x" \in env.FORBIDDEN_KEYWORDS

\* C35: a response with a story is marked is_cached exactly if its request
\* has launched no generator process.
C35_CachedIffNoLaunch ==
    \A r \in Requests :
        (req[r].pc = "done" /\ req[r].resp.code = 200)
        => (req[r].resp.is_cached <=> ~req[r].launched)

\* one request was answered from an existing story, another with a story
\* found after it had launched its process
C35_Witness ==
    \E r1, r2 \in Requests :
        /\ req[r1].pc = "done" /\ req[r1].resp.code = 200
        /\ req[r1].resp.is_cached /\ ~req[r1].launched
        /\ req[r2].pc = "done" /\ req[r2].resp.code = 200
        /\ ~req[r2].resp.is_cached /\ req[r2].launched

(***************************************************************************)
(* The server with requests that run one at a time: a request is accepted  *)
(* when every other request has been answered.  The generator processes    *)
(* run on their own, also after their request has been answered.           *)
(***************************************************************************)
Alone(r) == \A r2 \in Requests \ {r} : ~InFlight(r2)

SeqNext ==
    \/ \E r \in Requests : Alone(r) /\ Handler(r)
    \/ \E r \in Requests : Generator(r)
    \/ Tick

SeqSpec == StoryInit /\ [][SeqNext]_vars

\* the generator process of request r reads test.md and finds a theme
ReadsTheme(r) == proc[r].pc = "start" /\ proc'[r].pc = "save"

\* C38 as stated: when requests run one at a time, the process launched by a
\* request reads the theme of that request from test.md.
C38_HandOff ==
    [][\A r \in Requests :
          ReadsTheme(r) => proc'[r].theme = req[r].theme]_vars

\* C38 amended: when requests run one at a time, a process that reads test.md
\* before its request has been answered reads the theme of that request.
C38_HandOffInFlight ==
    [][\A r \in Requests :
          (ReadsTheme(r) /\ InFlight(r))
          => proc'[r].theme = req[r].theme]_vars

\* the process of the second of two requests for different themes has read
\* the theme of its request
C38_Witness ==
    \E r1, r2 \in Requests :
        /\ req[r1].pc = "done" /\ req[r1].launched
        /\ req[r1].theme # req[r2].theme
        /\ InFlight(r2)
        /\ proc[r2].pc = "save"
        /\ proc[r2].theme = req[r2].theme


(***************************************************************************)
(* The requests up to the write of test.md, with the updates of .env read  *)
(* by read.  The story directory is empty: every request with a theme      *)
(* misses the cache.                                                       *)
(***************************************************************************)
EnvInit == StoryInit /\ files = {}

EnvNext ==
    \/ \E r \in Requests : Arrive(r)
    \/ \E r \in Requests : EnvRead(r)
    \/ \E r \in Requests : EnvWrite(r)

EnvSpec == EnvInit /\ [][EnvNext]_vars

\* request r writes .env back
WritesEnv(r) == req[r].pc = "env_write" /\ req'[r].pc # "env_write"

\* what one write of request r may change: the key it sets, which is
\* OUTPUT_LANG, or FORBIDDEN_KEYWORDS for a request that carries words
EnvFrame(r) ==
    LET key == req[r].setting[1]
    IN /\ key \in {"OUTPUT_LANG", "FORBIDDEN_KEYWORDS"}
       /\ \A k \in DOMAIN env \ {key} : env'[k] = env[k]
       /\ key = "OUTPUT_LANG" => env'.OUTPUT_LANG = req[r].language
       /\ key = "FORBIDDEN_KEYWORDS"
          => /\ req[r].forbidden # {}
             /\ (req[r].forbidden \cup BaselineForbidden)
                   \subseteq env'.FORBIDDEN_KEYWORDS

\* C39 as stated: a request that carries forbidden words leaves them and the
\* baseline words in FORBIDDEN_KEYWORDS; a request that carries none leaves
\* FORBIDDEN_KEYWORDS as it is and rewrites OUTPUT_LANG only; every other key
\* stays as it was.
C39_EnvFrame ==
    [][\A r \in Requests : WritesEnv(r) => EnvFrame(r)]_vars

\* C39 amended: the same, for a write before which no other request has
\* written .env since this request read it.
C39_EnvFrameUndisturbed ==
    [][\A r \in Requests :
          (WritesEnv(r) /\ req[r].content = env) => EnvFrame(r)]_vars

\* a request with forbidden words has made both of its updates while another
\* request was making its own, and the words are in .env
C39_Witness ==
    \E r1, r2 \in Requests :
        /\ r1 # r2
        /\ req[r1].pc = "write_theme" /\ Len(req[r1].updates) = 2
        /\ req[r1].forbidden \cup BaselineForbidden = env.FORBIDDEN_KEYWORDS
        /\ req[r2].pc = "write_theme" /\ Len(req[r2].updates) = 1
        /\ env.BAIDU_API_KEY = "api_key"



(***************************************************************************)
(* generate_speech_baidu(text, output_path, language), lines 506-770.      *)
(* A text is a sequence of characters; the characters of an input are all  *)
(* different, so that a slice is told from every other slice.              *)
(***************************************************************************)
Text(n) == [k \in 1..n |-> k]

ShortLengths == {0, 1, max_length - 1, max_length, max_length + 1, 1200}
LongLengths == {MaxTextLength, MaxTextLength + 1}

Min(a, b) == IF a < b THEN a ELSE b

\* Python's s[a:b] for 0 <= a <= b
Slice(s, a, b) == SubSeq(s, Min(a, Len(s)) + 1, Min(b, Len(s)))

\* a cut that is one character short: text[:9999]
Truncate_short(text) ==
    IF Len(text) > MaxTextLength THEN Slice(text, 0, MaxTextLength - 1) ELSE text

\* lines 540-542: if len(text) > 10000: text = text[:10000]
Truncate(text) ==
    IF Len(text) > MaxTextLength THEN Slice(text, 0, MaxTextLength) ELSE text

\* a split that counts the chunks with len(text) // max_length and so loses
\* the last, shorter chunk
SplitParts_whole(text) ==
    [k \in 1..(Len(text) \div max_length) |->
        Slice(text, (k - 1) * max_length, (k - 1) * max_length + max_length)]

\* line 702: [text[i:i+max_length] for i in range(0, len(text), max_length)]
SplitParts(text) ==
    [k \in 1..((Len(text) + max_length - 1) \div max_length) |->
        Slice(text, (k - 1) * max_length, (k - 1) * max_length + max_length)]

\* what the short-text service answers to chunk k of n, in one run
ShortPlans == {"all", "none", "alternate", "last", "empty", "raise"}

ShortResponse(plan, k, n) ==
    CASE plan = "all" -> "audio"
      [] plan = "none" -> "error"
      [] plan = "alternate" -> IF k % 2 = 1 THEN "audio" ELSE "error"
      [] plan = "last" -> IF k = n THEN "audio" ELSE "error"
      [] plan = "empty" -> "empty_audio"
      [] plan = "raise" -> IF k = 2 THEN "exception" ELSE "audio"

\* the runs: every short text against every plan, the long texts against one
SpeechInputs ==
    (ShortLengths \X ShortPlans) \cup (LongLengths \X {"alternate"})

\* get_baidu_token, lines 450-504
TokenOutcomes ==
    {"ok", "no_credentials", "status", "no_access_token", "unparseable",
     "exception"}

\* the answers to the creation request, lines 561-595 and 692-694
CreateResponses ==
    {"task_id", "error_code", "token_invalid", "no_task_id", "unparseable",
     "exception"}

\* the answers to a status query, lines 613-684
QueryResponses ==
    {"Created", "Running", "Success", "Success_empty", "Success_no_url",
     "Success_download_failed", "Failed", "error_code", "no_tasks_info",
     "unknown", "unparseable", "exception"}

\* a polling that also goes on after a Failed status, and one that also goes
\* on after a failed download
Pending_failed == {"Created", "Running", "Failed"}
Pending_download == {"Created", "Running", "Success_download_failed"}

\* lines 637-640: the statuses after which the polling goes on
Pending == {"Created", "Running"}

SpeechInit ==
    /\ files = {}
    /\ env = InitialEnv
    /\ testmd = << >>
    /\ now = 2
    /\ req = [r \in Requests |-> IdleReq]
    /\ proc = [r \in Requests |-> NoProc]
    /\ md = IdleMd
    /\ audio = IdleAudio
    /\ doc = IdleDoc
    /\ \E in \in SpeechInputs :
          LET n == in[1]
              plan == in[2]
          IN speech = [IdleSpeech EXCEPT !.pc = "token", !.input = Text(n),
                                      !.text = Text(n), !.plan = plan]

Called(sp, what) == [sp EXCEPT !.calls[what] = sp.calls[what] + 1]

\* return True / return False
Return(sp, value) == [sp EXCEPT !.pc = "done", !.ret = value]

\* what a failed request of the run raises: the requests library names the URL
\* it could not reach, and the URL holds the access token (lines 562 and 614,
\* 720 and 732)
RequestError(sp) == <<"request failed: ", sp.token>>

\* an except clause that hands the exception on to the caller
Except_reraise(sp, e) == [sp EXCEPT !.pc = "done", !.ret = "raise", !.raised = e]

\* lines 766-770: except Exception as e: the message is printed, return False
Except(sp, e) == Return(sp, "False")

\* lines 696-707: the short-text path is entered
EnterShort(sp) ==
    [sp EXCEPT !.pc = "short", !.short_path = TRUE,
               !.text_parts = SplitParts(sp.text), !.part = 1,
               !.all_audio_data = << >>]

(***************************************************************************)
(* lines 517-522: the token is asked for; without one the run fails.       *)
(***************************************************************************)
\* a run that goes on to the creation request without a token
GetToken_proceed ==
    /\ speech.pc = "token"
    /\ \E outcome \in TokenOutcomes :
          LET sp == [(IF outcome = "no_credentials" THEN speech
                      ELSE Called(speech, "token"))
                     EXCEPT !.token_response = outcome]
          IN speech' = IF outcome = "ok"
                       THEN [sp EXCEPT !.pc = "create", !.token = "tok"]
                       ELSE [sp EXCEPT !.pc = "create"]
    /\ UNCHANGED <<storyVars, md, audio, doc>>

GetToken ==
    /\ speech.pc = "token"
    /\ \E outcome \in TokenOutcomes :
          LET sp == [(IF outcome = "no_credentials" THEN speech
                      ELSE Called(speech, "token"))
                     EXCEPT !.token_response = outcome]
          IN speech' = IF outcome = "ok"
                       THEN [sp EXCEPT !.pc = "create", !.token = "tok"]
                       ELSE Return(sp, "False")
    /\ UNCHANGED <<storyVars, md, audio, doc>>

(***************************************************************************)
(* lines 538-595 and 692-694: the text is cut to 10000 characters and the  *)
(* creation request is sent.                                               *)
(***************************************************************************)
CreateTask ==
    /\ speech.pc = "create"
    /\ \E response \in CreateResponses :
          LET text == Truncate(speech.text)
              sp == [Called(speech, "create") EXCEPT
                        !.text = text, !.create_text = text,
                        !.create_response = response]
          IN speech' =
               CASE response = "task_id" -> [sp EXCEPT !.pc = "query", !.i = 0]
                 [] response \in {"error_code", "token_invalid", "no_task_id"} ->
                        Return(sp, "False")
                 [] response = "unparseable" -> EnterShort(sp)
                 [] response = "exception" -> Except(sp, RequestError(sp))
    /\ UNCHANGED <<storyVars, md, audio, doc>>

\* a download after which the loop is left with break, not return
Downloaded_break(sp, content) ==
    EnterShort([sp EXCEPT !.output = [written |-> TRUE, bytes |-> content]])

\* lines 660-664: the payload is written to output_path, return True
Downloaded(sp, content) ==
    Return([sp EXCEPT !.output = [written |-> TRUE, bytes |-> content]], "True")

(***************************************************************************)
(* lines 604-690: one iteration of the status loop.                        *)
(***************************************************************************)
\* a polling that reports failure when a query is answered with an error
QueryTask_fail ==
    /\ speech.pc = "query"
    /\ speech.i < max_retries
    /\ \E response \in QueryResponses :
          LET sp == [Called(speech, "query") EXCEPT !.query_response = response]
              dl == Called(sp, "download")
          IN speech' =
               CASE response \in Pending ->
                        LET next == [sp EXCEPT !.i = sp.i + 1,
                                               !.slept = sp.slept + retry_interval]
                        IN IF next.i < max_retries THEN next
                           ELSE EnterShort(next)
                 [] response = "Success" -> Downloaded(dl, <<0>>)
                 [] response = "Success_empty" -> Downloaded(dl, << >>)
                 [] response = "Success_download_failed" -> EnterShort(dl)
                 [] response = "exception" -> Except(sp, RequestError(sp))
                 [] response = "error_code" -> Return(sp, "False")
                 [] OTHER -> EnterShort(sp)
    /\ UNCHANGED <<storyVars, md, audio, doc>>

QueryTask ==
    /\ speech.pc = "query"
    /\ speech.i < max_retries
    /\ \E response \in QueryResponses :
          LET sp == [Called(speech, "query") EXCEPT !.query_response = response]
              dl == Called(sp, "download")
          IN speech' =
               CASE response \in Pending ->
                        LET next == [sp EXCEPT !.i = sp.i + 1,
                                               !.slept = sp.slept + retry_interval]
                        IN IF next.i < max_retries THEN next
                           ELSE EnterShort(next)
                 [] response = "Success" -> Downloaded(dl, <<0>>)
                 [] response = "Success_empty" -> Downloaded(dl, << >>)
                 [] response = "Success_download_failed" -> EnterShort(dl)
                 [] response = "exception" -> Except(sp, RequestError(sp))
                 [] OTHER -> EnterShort(sp)
    /\ UNCHANGED <<storyVars, md, audio, doc>>

\* lines 738-753: what the answer to chunk k adds to all_audio_data
Payload(response, k) == IF response = "audio" THEN <<k>> ELSE << >>

(***************************************************************************)
(* lines 709-753: one chunk is sent to the short-text service.             *)
(***************************************************************************)
ShortChunk ==
    /\ speech.pc = "short"
    /\ speech.part <= Len(speech.text_parts)
    /\ LET response == ShortResponse(speech.plan, speech.part,
                                     Len(speech.text_parts))
           sp == [Called(speech, "short") EXCEPT
                     !.part = speech.part + 1,
                     !.sent = Append(@, speech.text_parts[speech.part])]
       IN speech' =
            IF response = "exception" THEN Except(sp, RequestError(sp))
            ELSE [sp EXCEPT !.all_audio_data =
                               @ \o Payload(response, speech.part)]
    /\ UNCHANGED <<storyVars, md, audio, doc>>

(***************************************************************************)
(* lines 755-764: the buffer is written out, or the run fails.             *)
(***************************************************************************)
FinishShort ==
    /\ speech.pc = "short"
    /\ speech.part > Len(speech.text_parts)
    /\ speech' =
         IF speech.all_audio_data # << >>
         THEN Return([speech EXCEPT !.output =
                        [written |-> TRUE, bytes |-> speech.all_audio_data]],
                     "True")
         ELSE Return(speech, "False")
    /\ UNCHANGED <<storyVars, md, audio, doc>>

SpeechNext ==
    \/ GetToken
    \/ CreateTask
    \/ QueryTask
    \/ ShortChunk
    \/ FinishShort

SpeechSpec == SpeechInit /\ [][SpeechNext]_vars

(***************************************************************************)
(* Properties of generate_speech_baidu.                                    *)
(***************************************************************************)
\* C3: a run whose creation response carried an error code or no task
\* identifier went on to the short-text path before it returned.
C3_FallbackOnCreateError ==
    (/\ speech.pc = "done"
     /\ speech.create_response \in {"error_code", "token_invalid", "no_task_id"})
    => speech.short_path

\* C7: a run that got a token for a non-empty text and reports failure has
\* sent at least one short-text synthesis request.
C7_SecondChance ==
    (/\ speech.pc = "done" /\ speech.ret = "False"
     /\ speech.token # ""
     /\ Len(speech.input) > 0)
    => speech.calls.short >= 1

\* C8: the text of the creation request is the first min(len(text), 10000)
\* characters of the input.
C8_Truncation ==
    speech.calls.create > 0 =>
        LET input == speech.input
            sent == speech.create_text
            n == IF Len(input) < 10000 THEN Len(input) ELSE 10000
        IN /\ Len(sent) = n
           /\ sent = SubSeq(input, 1, n)

\* a text of more than 10000 characters was submitted as 10000 characters
C8_Witness ==
    /\ speech.calls.create > 0
    /\ Len(speech.input) > MaxTextLength
    /\ Len(speech.create_text) = MaxTextLength

\* C13: a run that got no token reports failure and has sent no creation
\* request, no status query, no download and no short-text request, and has
\* written no audio file.
C13_NoTokenNoCalls ==
    (speech.pc \notin {"idle", "token"} /\ speech.token_response # "ok") =>
        /\ speech.pc = "done" /\ speech.ret = "False"
        /\ speech.calls.create = 0 /\ speech.calls.query = 0
        /\ speech.calls.download = 0 /\ speech.calls.short = 0
        /\ ~speech.output.written

\* the token request was answered without an access token and the run failed
C13_Witness ==
    /\ speech.pc = "done" /\ speech.ret = "False"
    /\ speech.token_response = "no_access_token"
    /\ speech.calls.token = 1

\* C14: a run that took the short-text path reports success exactly if a
\* chunk returned audio, and a run without any audio writes no file.
C14_PartialSuccess ==
    (speech.pc = "done" /\ speech.short_path) =>
        /\ (speech.ret = "True") <=> (speech.all_audio_data # << >>)
        /\ (speech.all_audio_data = << >>) => ~speech.output.written

\* C15: the audio file of a run that reports success is not empty.
C15_NonEmptyAudio ==
    (speech.pc = "done" /\ speech.ret = "True") =>
        /\ speech.output.written
        /\ Len(speech.output.bytes) > 0

\* C19: a run sends at most 30 status queries, and when the next query is
\* due the run has slept 3 seconds for each query sent so far.
C19_BoundedPolling ==
    /\ speech.calls.query <= 30
    /\ (speech.pc = "query") => (speech.slept = 3 * speech.calls.query)

\* 30 queries were sent, each answered Created or Running
C19_Witness ==
    /\ speech.calls.query = 30
    /\ speech.slept = 90
    /\ speech.short_path

\* C20: the query that is answered Failed is the last one of the run, and the
\* run goes on to the short-text path with it.
C20_FailedStopsPolling ==
    [][/\ (speech.query_response # "Failed" /\ speech'.query_response = "Failed")
          => (speech'.pc = "short" /\ speech'.short_path)
       /\ (speech.query_response = "Failed")
          => (/\ speech'.calls.query = speech.calls.query
              /\ speech'.short_path
              /\ speech'.pc \in {"short", "done"})]_vars

\* a task failed and the run has sent a short-text request since
C20_Witness ==
    /\ speech.query_response = "Failed"
    /\ speech.short_path
    /\ speech.calls.short > 0

\* C21: after a Success status whose payload could not be fetched (no URL, or
\* a download that did not answer 200) no query and no download follows,
\* and the run is on the short-text path.
C21_DownloadNotRetried ==
    [][/\ (/\ speech'.calls.query = speech.calls.query + 1
           /\ speech'.query_response \in
                 {"Success_download_failed", "Success_no_url"})
          => (speech'.pc = "short" /\ speech'.short_path)
       /\ (speech.query_response \in
              {"Success_download_failed", "Success_no_url"})
          => (/\ speech'.calls.query = speech.calls.query
              /\ speech'.calls.download = speech.calls.download
              /\ speech'.short_path
              /\ speech'.pc \in {"short", "done"})]_vars

\* a download failed and the run has sent a short-text request since
C21_Witness ==
    /\ speech.query_response = "Success_download_failed"
    /\ speech.calls.download = 1
    /\ speech.calls.short > 0

\* C22: a query answered Created or Running is followed by another query as
\* long as fewer than 30 were sent; after the 30th the run is on the
\* short-text path.
C22_PendingUsesBudget ==
    [][(/\ speech'.calls.query = speech.calls.query + 1
        /\ speech'.query_response \in {"Created", "Running"})
       => IF speech'.calls.query < 30
          THEN speech'.pc = "query"
          ELSE speech'.pc = "short" /\ speech'.short_path]_vars

\* the 30th query was answered Running and the short-text path was entered
C22_Witness ==
    /\ speech.calls.query = 30
    /\ speech.query_response = "Running"
    /\ speech.pc = "short" /\ speech.calls.short = 0

\* the chunks joined in order
RECURSIVE Concat(_)
Concat(parts) ==
    IF parts = << >> THEN << >> ELSE Head(parts) \o Concat(Tail(parts))

\* the payloads of chunks 1..n under the run's plan, joined in order
Payloads(plan, n) ==
    [k \in 1..n |-> Payload(ShortResponse(plan, k, n), k)]

\* C23: a run that took the short-text path has submitted every chunk once,
\* in order, and its buffer is the payloads of the chunks, joined in order.
C23_AllChunksInOrder ==
    (speech.pc = "done" /\ speech.short_path) =>
        /\ speech.sent = speech.text_parts
        /\ speech.all_audio_data =
              Concat(Payloads(speech.plan, Len(speech.text_parts)))

\* C24: the creation request is sent with a token, a query only for a created
\* task, a short-text request only on the short-text path with no file
\* written; a run whose download wrote the file returns it and has sent no
\* short-text request.
C24_CallOrder ==
    /\ speech.calls.create > 0 =>
          (speech.calls.token = 1 /\ speech.token_response = "ok")
    /\ speech.calls.query > 0 =>
          (speech.calls.create = 1 /\ speech.create_response = "task_id")
    /\ speech.calls.short > 0 =>
          (/\ speech.short_path /\ speech.calls.create = 1
           /\ (speech.pc # "done" => ~speech.output.written))
    /\ (speech.calls.download > 0 /\ speech.output.written /\ ~speech.short_path)
          => (speech.pc = "done" /\ speech.ret = "True"
              /\ speech.calls.short = 0)
    /\ (speech.output.written /\ speech.calls.short = 0) =>
          (speech.calls.download > 0 /\ ~speech.short_path)

\* a download wrote the file and the run returned it
C24_Witness ==
    /\ speech.pc = "done" /\ speech.ret = "True"
    /\ speech.calls.download = 1 /\ speech.calls.query > 1
    /\ speech.output.written /\ speech.calls.short = 0

ChunkLengths(parts) == [k \in 1..Len(parts) |-> Len(parts[k])]

\* C9: on the short-text path a text of length L >= 1 is split into
\* ceil(L/500) chunks, all of length 500 but the last, which has the rest,
\* and the chunks in order make up the text; 1200 characters give chunks of
\* 500, 500 and 200.
C9_Chunking ==
    (speech.short_path /\ Len(speech.text) >= 1) =>
        LET L == Len(speech.text)
            n == (L + 499) \div 500
            parts == speech.text_parts
        IN /\ Len(parts) = n
           /\ \A k \in 1..(n - 1) : Len(parts[k]) = 500
           /\ Len(parts[n]) = L - 500 * (n - 1)
           /\ Concat(parts) = speech.text
           /\ (L = 1200 => ChunkLengths(parts) = <<500, 500, 200>>)

\* a text of 1200 characters was split into chunks of 500, 500 and 200
C9_Witness ==
    /\ speech.short_path
    /\ Len(speech.text) = 1200
    /\ ChunkLengths(speech.text_parts) = <<500, 500, 200>>

\* C32: a run whose creation request was answered with the invalid-token error
\* has asked for a token a second time and sent the creation request again.
C32_TokenRefresh ==
    (speech.pc = "done" /\ speech.create_response = "token_invalid")
    => speech.calls.token = 2 /\ speech.calls.create = 2

\* the answers to a status query that are errors: an error code, no
\* tasks_info, an unknown status, a body that is not JSON
QueryErrors == {"error_code", "no_tasks_info", "unknown", "unparseable"}

\* the answers to the creation request after which the run is given up
CreateErrors == {"error_code", "token_invalid", "no_task_id"}

\* a status query of the run is answered with an error
QueryFails ==
    /\ speech.pc = "query"
    /\ speech'.calls.query = speech.calls.query + 1
    /\ speech'.query_response \in QueryErrors

\* the run ends with a failure and has not tried the short-text service
FailsWithoutShort ==
    /\ speech.pc # "done" /\ speech'.pc = "done"
    /\ speech'.ret = "False"
    /\ ~speech'.short_path

Whitespace == {" ", "\n"}

\* the backquote character (U+0060) and the code fence made of three of them
Backquote == "BQ"
Fence == <<Backquote, Backquote, Backquote>>

\* s[a..b] holds no newline: what '.' can match
NoNewline(s, a, b) == \A k \in a..b : s[k] # "\n"

\* s holds the characters of w at position p
At(s, p, w) ==
    /\ p + Len(w) - 1 <= Len(s)
    /\ \A k \in 1..Len(w) : s[p + k - 1] = w[k]

\* the end of the longest run of characters of set cs that starts at p
RunEnd(s, p, cs) ==
    LET ends == {q \in (p - 1)..Len(s) : \A k \in p..q : s[k] \in cs}
    IN CHOOSE q \in ends : \A q2 \in ends : q2 <= q

Least(S) == CHOOSE x \in S : \A y \in S : x <= y

\* \[(.*?)\]\(.*?\) at p: <<position of "](", position of ")">>, or <<0, 0>>
LinkMatch(s, p) ==
    LET closes == {j \in (p + 1)..Len(s) :
                      /\ At(s, j, <<"]", "(">>)
                      /\ NoNewline(s, p + 1, j - 1)
                      /\ \E k \in (j + 2)..Len(s) :
                            s[k] = ")" /\ NoNewline(s, j + 2, k - 1)}
    IN IF p > Len(s) \/ s[p] # "[" \/ closes = {} THEN <<0, 0>>
       ELSE LET j == Least(closes)
            IN <<j, Least({k \in (j + 2)..Len(s) :
                              s[k] = ")" /\ NoNewline(s, j + 2, k - 1)})>>

\* the closing delimiter w of a lazy (.*?) group that was opened before a
EmphasisClose(s, a, w) ==
    LET closes == {j \in a..Len(s) : At(s, j, w) /\ NoNewline(s, a, j - 1)}
    IN IF closes = {} THEN 0 ELSE Least(closes)

\* the closing fence of the code block pattern (fence .*? fence, re.DOTALL)
FenceClose(s, a) ==
    LET closes == {j \in a..Len(s) : At(s, j, Fence)}
    IN IF closes = {} THEN 0 ELSE Least(closes)

\* the last newline of the whitespace run behind the newline at p, or 0
BlankEnd(s, p) ==
    LET newlines == {j \in (p + 1)..RunEnd(s, p + 1, Whitespace) : s[j] = "\n"}
    IN IF newlines = {} THEN 0
       ELSE CHOOSE j \in newlines : \A j2 \in newlines : j2 <= j

Steps ==
    <<"heading", "image", "link", "bold", "italic", "code", "rule", "bullet",
      "blank">>

\* the last position of the match of the step's pattern at p, or 0
MatchEnd(step, s, p) ==
    CASE step = "heading" ->       \* #+\s+
            LET h == RunEnd(s, p, {"#"})
                w == RunEnd(s, h + 1, Whitespace)
            IN IF h >= p /\ w > h THEN w ELSE 0
      [] step = "image" ->         \* !\[.*?\]\(.*?\)
            IF s[p] = "!" THEN LinkMatch(s, p + 1)[2] ELSE 0
      [] step = "link" ->          \* \[(.*?)\]\(.*?\)
            LinkMatch(s, p)[2]
      [] step = "bold" ->          \* \*\*(.*?)\*\*
            IF At(s, p, <<"*", "*">>) /\ EmphasisClose(s, p + 2, <<"*", "*">>) > 0
            THEN EmphasisClose(s, p + 2, <<"*", "*">>) + 1 ELSE 0
      [] step = "italic" ->        \* \*(.*?)\*
            IF s[p] = "*" THEN EmphasisClose(s, p + 1, <<"*">>) ELSE 0
      [] step = "code" ->          \* fence .*? fence
            IF At(s, p, Fence) /\ FenceClose(s, p + 3) > 0
            THEN FenceClose(s, p + 3) + 2 ELSE 0
      [] step = "rule" ->          \* ---
            IF At(s, p, <<"-", "-", "-">>) THEN p + 2 ELSE 0
      [] step = "bullet" ->        \* text.replace('- ', '')
            IF At(s, p, <<"-", " ">>) THEN p + 1 ELSE 0
      [] step = "blank" ->         \* \n\s*\n
            IF s[p] = "\n" THEN BlankEnd(s, p) ELSE 0

\* what the match s[p..e] of the step's pattern is replaced by
Replacement(step, s, p, e) ==
    CASE step = "link" -> SubSeq(s, p + 1, LinkMatch(s, p)[1] - 1)
      [] step = "bold" -> SubSeq(s, p + 2, e - 2)
      [] step = "italic" -> SubSeq(s, p + 1, e - 1)
      [] step = "blank" -> <<"\n", "\n">>
      [] OTHER -> << >>

\* re.sub(pattern, replacement, s), from position p on
RECURSIVE ReSub(_, _, _)
ReSub(step, s, p) ==
    IF p > Len(s) THEN << >>
    ELSE LET e == MatchEnd(step, s, p)
         IN IF e = 0 THEN <<s[p]>> \o ReSub(step, s, p + 1)
            ELSE Replacement(step, s, p, e) \o ReSub(step, s, e + 1)

\* str.strip()
Strip(s) ==
    LET inner == {k \in 1..Len(s) : s[k] \notin Whitespace}
    IN IF inner = {} THEN << >>
       ELSE SubSeq(s, Least(inner),
                   CHOOSE k \in inner : \A k2 \in inner : k2 <= k)

\* the substitutions of lines 430-446, in their order
RECURSIVE Substitute(_, _)
Substitute(s, n) ==
    IF n = 0 THEN s ELSE ReSub(Steps[n], Substitute(s, n - 1), 1)

extract_plain_text(markdown_content) ==
    Strip(Substitute(markdown_content, Len(Steps)))

\* the markdown texts: up to MaxTokens tokens, each a character or a piece of markup
MdTokens ==
    { <<"#">>, <<"*">>, <<"-">>, <<" ">>, <<"\n">>, <<"a">>,
      <<"!", "[", "a", "]", "(", "b", ")">>,
      <<"[", "c", "]", "(", "d", ")">>,
      Fence }

RECURSIVE Flatten(_)
Flatten(ts) == IF ts = << >> THEN << >> ELSE Head(ts) \o Flatten(Tail(ts))

ExtractInit ==
    /\ files = {}
    /\ env = InitialEnv
    /\ testmd = << >>
    /\ now = 2
    /\ req = [r \in Requests |-> IdleReq]
    /\ proc = [r \in Requests |-> NoProc]
    /\ speech = IdleSpeech
    /\ audio = IdleAudio
    /\ doc = IdleDoc
    /\ \E n \in 0..MaxTokens : \E ts \in [1..n -> MdTokens] :
          md = [IdleMd EXCEPT !.pc = "input", !.input = Flatten(ts)]

\* plain_text = extract_plain_text(story_content), lines 127, 296 and 373
ExtractOnce ==
    /\ md.pc = "input"
    /\ md' = [md EXCEPT !.pc = "once", !.once = extract_plain_text(md.input)]
    /\ UNCHANGED <<storyVars, speech, audio, doc>>

\* the function applied to its own result
ExtractAgain ==
    /\ md.pc = "once"
    /\ md' = [md EXCEPT !.pc = "twice", !.twice = extract_plain_text(md.once)]
    /\ UNCHANGED <<storyVars, speech, audio, doc>>

ExtractNext == ExtractOnce \/ ExtractAgain

ExtractSpec == ExtractInit /\ [][ExtractNext]_vars

(***************************************************************************)
(* Properties of extract_plain_text.                                       *)
(***************************************************************************)
\* C10: extract_plain_text applied to its own result gives that result.
C10_Idempotent == md.pc = "twice" => md.twice = md.once


(***************************************************************************)
(* process_markdown_with_images(markdown_content, image_url_dict), lines   *)
(* 791-903.  The content is given as its pieces between "\n\n" (line 803); *)
(* a piece is a sequence of characters, a marker or a file name standing   *)
(* for its characters.  image_url_dict is given by its keys.  An emitted   *)
(* part is [tag, src, ref]: src is the index of the piece it was made of,  *)
(* ref what a heading or an image refers to.                               *)
(***************************************************************************)
MaxBlocks == 4

\* the literals of lines 824 and 872
CastMark == "**cast:**"
VocabMark == "**vocabulary:**"

\* str.startswith
StartsWith(s, w) == At(s, 1, w)

\* re.match(r'^# (.+)$', paragraph, re.MULTILINE): where group 1 ends, or 0
TitleMatch(paragraph) ==
    IF At(paragraph, 1, <<"#", " ">>) /\ Len(paragraph) >= 3
                                      /\ paragraph[3] # "\n"
    THEN CHOOSE q \in 3..Len(paragraph) :
            /\ NoNewline(paragraph, 3, q)
            /\ \A q2 \in (q + 1)..Len(paragraph) : ~NoNewline(paragraph, 3, q2)
    ELSE 0

\* re.search(r'!\[(.*?)\]\((.*?)\)', paragraph): where the match starts, or 0
ImageSearch(paragraph) ==
    LET starts == {p \in 1..Len(paragraph) : MatchEnd("image", paragraph, p) > 0}
    IN IF starts = {} THEN 0 ELSE Least(starts)

\* img_match.group(2)
ImagePath(paragraph) ==
    LET m == LinkMatch(paragraph, ImageSearch(paragraph) + 1)
    IN SubSeq(paragraph, m[1] + 2, m[2] - 1)

\* os.path.basename
Basename(path) ==
    LET slashes == {k \in 1..Len(path) : path[k] = "/"}
    IN IF slashes = {} THEN path
       ELSE SubSeq(path, (CHOOSE k \in slashes : \A k2 \in slashes : k2 <= k) + 1,
                   Len(path))

HtmlPart(tag, src, ref) == [tag |-> tag, src |-> src, ref |-> ref]

\* lines 814-826: the index of the last piece that is a title, or 0
TitleIndex(paragraphs) ==
    LET titles == {i \in 1..Len(paragraphs) : TitleMatch(Strip(paragraphs[i])) > 0}
    IN IF titles = {} THEN 0 ELSE CHOOSE i \in titles : \A j \in titles : j <= i

\* lines 814-826: the index of the last piece that starts with the cast mark, or 0
CharacterIndex(paragraphs) ==
    LET casts == {i \in 1..Len(paragraphs) :
                     StartsWith(Strip(paragraphs[i]), <<CastMark>>)}
    IN IF casts = {} THEN 0 ELSE CHOOSE i \in casts : \A j \in casts : j <= i

\* lines 829-898: what one iteration of the second loop appends to html_parts
RenderParagraph(paragraphs, image_url_dict, i) ==
    LET paragraph == Strip(paragraphs[i])
        title_index == TitleIndex(paragraphs)
        character_index == CharacterIndex(paragraphs)
    IN IF paragraph = << >> THEN << >>
       ELSE IF TitleMatch(paragraph) > 0
       THEN <<HtmlPart("h1", i, SubSeq(paragraph, 3, TitleMatch(paragraph)))>>
            \o (IF character_index # 0 /\ i = title_index
                THEN <<HtmlPart("description", character_index, << >>)>>
                ELSE << >>)
       ELSE IF StartsWith(paragraph, <<CastMark>>) /\ i = character_index
       THEN << >>
       ELSE IF StartsWith(paragraph, <<"!", "[">>)
       THEN IF /\ ImageSearch(paragraph) > 0
               /\ Basename(ImagePath(paragraph)) \in image_url_dict
            THEN <<HtmlPart("image", i,
                            <<"abs">> \o Basename(ImagePath(paragraph)))>>
            ELSE << >>
       ELSE IF paragraph = <<"-", "-", "-">>
       THEN <<HtmlPart("hr", i, << >>)>>
       ELSE IF StartsWith(paragraph, <<VocabMark>>)
       THEN <<HtmlPart("description", i, << >>)>>
       ELSE <<HtmlPart("p", i, << >>)>>

RECURSIVE RenderFrom(_, _, _)
RenderFrom(paragraphs, image_url_dict, i) ==
    IF i > Len(paragraphs) THEN << >>
    ELSE RenderParagraph(paragraphs, image_url_dict, i)
         \o RenderFrom(paragraphs, image_url_dict, i + 1)

\* html_parts at line 901
process_markdown_with_images(paragraphs, image_url_dict) ==
    RenderFrom(paragraphs, image_url_dict, 1)

\* the pieces a story is made of here
Pieces ==
    { << >>,
      <<"#", " ", "T">>,
      <<CastMark, "A">>,
      <<"!", "[", "s", "]", "(", "img.png", ")">>,
      <<"!", "[", "s", "]", "(", "d", "/", "other.png", ")">>,
      <<"!", "[", "s">>,
      <<"-", "-", "-">>,
      <<VocabMark, "w">>,
      <<"p">>,
      <<" ", "q", "\n">> }

ImageDicts == { {}, {<<"img.png">>} }

RenderInit ==
    /\ files = {}
    /\ env = InitialEnv
    /\ testmd = << >>
    /\ now = 2
    /\ req = [r \in Requests |-> IdleReq]
    /\ proc = [r \in Requests |-> NoProc]
    /\ speech = IdleSpeech
    /\ md = IdleMd
    /\ audio = IdleAudio
    /\ \E n \in 0..MaxBlocks : \E ps \in [1..n -> Pieces] :
       \E dict \in ImageDicts :
          doc = [IdleDoc EXCEPT !.pc = "input", !.paragraphs = ps,
                                !.image_url_dict = dict]

\* html_content = process_markdown_with_images(story_content, image_url_dict)
Render ==
    /\ doc.pc = "input"
    /\ doc' = [doc EXCEPT !.pc = "rendered",
                          !.html_parts = process_markdown_with_images(
                                             doc.paragraphs, doc.image_url_dict)]
    /\ UNCHANGED <<storyVars, speech, md, audio>>

RenderNext == Render

RenderSpec == RenderInit /\ [][RenderNext]_vars

(***************************************************************************)
(* Properties of process_markdown_with_images.                             *)
(***************************************************************************)
\* the pieces that are cast lists, and those that are not blank
CastPieces == {i \in 1..Len(doc.paragraphs) :
                  StartsWith(Strip(doc.paragraphs[i]), <<CastMark>>)}
NonBlankPieces == {i \in 1..Len(doc.paragraphs) : Strip(doc.paragraphs[i]) # << >>}

\* the positions of html_parts made of piece i
PartsOf(i) == {k \in 1..Len(doc.html_parts) : doc.html_parts[k].src = i}

\* C11: every cast list of the story is emitted exactly once, directly after
\* a title heading, and the other parts are in the order of their pieces.
C11_CastUnderTitle ==
    doc.pc = "rendered" =>
        /\ \A c \in CastPieces :
              /\ Cardinality(PartsOf(c)) = 1
              /\ \A k \in PartsOf(c) :
                    k > 1 /\ doc.html_parts[k - 1].tag = "h1"
        /\ \A k, l \in 1..Len(doc.html_parts) :
              (/\ k < l
               /\ doc.html_parts[k].src \notin CastPieces
               /\ doc.html_parts[l].src \notin CastPieces)
              => doc.html_parts[k].src <= doc.html_parts[l].src

\* C12: as many parts are emitted as the story has pieces that are not blank.
C12_BlockCount ==
    doc.pc = "rendered" => Len(doc.html_parts) = Cardinality(NonBlankPieces)

\* the pieces that are image references: ![alt](path)
ImagePieces ==
    {i \in 1..Len(doc.paragraphs) :
        /\ StartsWith(Strip(doc.paragraphs[i]), <<"!", "[">>)
        /\ ImageSearch(Strip(doc.paragraphs[i])) > 0}

\* C33: every image reference of the story is emitted as one image part,
\* which names the mapped location when the basename of the path is in the
\* image mapping and the path of the reference when it is not.
C33_ImageFallback ==
    doc.pc = "rendered" =>
        \A i \in ImagePieces :
            LET path == ImagePath(Strip(doc.paragraphs[i]))
            IN /\ Cardinality(PartsOf(i)) = 1
               /\ \A k \in PartsOf(i) :
                     /\ doc.html_parts[k].tag = "image"
                     /\ doc.html_parts[k].ref =
                           IF Basename(path) \in doc.image_url_dict
                           THEN <<"abs">> \o Basename(path)
                           ELSE path


(***************************************************************************)
(* generate_audio, lines 316-400.  The handler runs generate_speech_baidu  *)
(* on the text of the request and, if that fails, once more on the plain   *)
(* text of the newest story file.  An error message is the sequence of the *)
(* pieces it is put together from.                                         *)
(***************************************************************************)
AudioTexts ==
    { << >>, <<"a">>, <<"!", "[", "a", "]", "(", "b", ")">>,
      <<"a", "!", "[", "a", "]", "(", "b", ")">> }

\* what the short-text service does in a run started by generate_audio
AudioPlans == {"all", "none"}

\* the content of a story file as text
StoryText(content) == IF content = "full" THEN <<"#", " ", "a">> ELSE << >>

\* the values that must not be shown: BAIDU_API_KEY, BAIDU_SECRET_KEY and the
\* access token (lines 457, 458 and 519)
CredentialValues == {"api_key", "secret_key", "tok"}

AudioDirs == InitialDirs \cup { {OldFile(<<"a">>, 1, "full")} }

\* return jsonify(...), code: the handler's locals end with the call
AudioRespond(a, code, audio_url, error) ==
    [IdleAudio EXCEPT !.pc = "done", !.text = a.text, !.probed = a.probed,
                      !.runs = a.runs, !.creates = a.creates,
                      !.written = a.written,
                      !.resp = [code |-> code, audio_url |-> audio_url,
                                error |-> error]]

\* generate_speech_baidu(text, audio_path, language) is called
StartRun(text, plan) ==
    [IdleSpeech EXCEPT !.pc = "token", !.input = text, !.text = text,
                       !.plan = plan]

(***************************************************************************)
(* lines 319-353: the request is validated, the image references are taken *)
(* out of the text, the provider is probed and the first run starts.       *)
(***************************************************************************)
\* a handler that probes the provider before it looks at the text
AudioArrive_probe_first ==
    /\ audio.pc = "idle"
    /\ \E data \in AudioTexts, reachable \in BOOLEAN, plan \in AudioPlans :
          LET text == ReSub("image", data, 1)
              a == [audio EXCEPT !.text = data, !.probed = TRUE]
          IN IF ~reachable
             THEN /\ audio' = AudioRespond(a, 500, FALSE,
                                           <<"cannot reach the provider">>)
                  /\ UNCHANGED speech
             ELSE IF data = << >>
             THEN /\ audio' = AudioRespond(a, 400, FALSE,
                                           <<"text must not be empty">>)
                  /\ UNCHANGED speech
             ELSE /\ audio' = [a EXCEPT !.pc = "run", !.runs = 1]
                  /\ speech' = StartRun(text, plan)
    /\ UNCHANGED <<storyVars, md, doc>>

AudioArrive ==
    /\ audio.pc = "idle"
    /\ \E data \in AudioTexts, reachable \in BOOLEAN, plan \in AudioPlans :
          LET text == ReSub("image", data, 1)
              a == [audio EXCEPT !.text = data]
              probed == [a EXCEPT !.probed = TRUE]
          IN IF data = << >>
             THEN /\ audio' = AudioRespond(a, 400, FALSE,
                                           <<"text must not be empty">>)
                  /\ UNCHANGED speech
             ELSE IF ~reachable
             THEN /\ audio' = AudioRespond(probed, 500, FALSE,
                                           <<"cannot reach the provider">>)
                  /\ UNCHANGED speech
             ELSE /\ audio' = [probed EXCEPT !.pc = "run", !.runs = 1]
                  /\ speech' = StartRun(text, plan)
    /\ UNCHANGED <<storyVars, md, doc>>

(***************************************************************************)
(* lines 353-400: a run has returned.  After a failed first run the newest *)
(* story file is read and its plain text is given to a second run; after a *)
(* failed second run the handler answers with an error.  An exception that *)
(* leaves the try block is answered by the except clause of line 395.      *)
(***************************************************************************)
AudioAfterRun ==
    /\ audio.pc = "run"
    /\ speech.pc = "done"
    /\ LET a == [audio EXCEPT !.creates = @ + speech.calls.create,
                              !.written = @ \/ speech.output.written]
       IN \/ /\ speech.ret = "raise"
             /\ audio' = AudioRespond(a, 500, FALSE,
                            <<"error while generating audio: ">> \o speech.raised)
             /\ speech' = IdleSpeech
          \/ /\ speech.ret = "True"
             /\ audio' = AudioRespond(a, 200, TRUE, << >>)
             /\ speech' = IdleSpeech
          \/ /\ speech.ret = "False"
             /\ audio.runs = 1
             /\ files = {}
             /\ audio' = AudioRespond(a, 500, FALSE, <<"no story file found">>)
             /\ speech' = IdleSpeech
          \/ /\ speech.ret = "False"
             /\ audio.runs = 1
             /\ \E latest_story \in Latest(files), readable \in BOOLEAN,
                   plan \in AudioPlans :
                   IF readable
                   THEN LET pure_text ==
                                extract_plain_text(StoryText(latest_story.content))
                        IN /\ audio' = [a EXCEPT !.runs = 2]
                           /\ speech' = StartRun(pure_text, plan)
                   ELSE /\ audio' = AudioRespond(a, 500, FALSE,
                                       <<"error while generating audio: ",
                                         "cannot read the story file">>)
                        /\ speech' = IdleSpeech
          \/ /\ speech.ret = "False"
             /\ audio.runs = 2
             /\ \E keys_set \in BOOLEAN :
                   /\ ~keys_set => speech.token_response = "no_credentials"
                   /\ audio' = AudioRespond(a, 500, FALSE,
                                  IF keys_set
                                  THEN <<"speech generation failed">>
                                  ELSE <<"the provider keys are not set">>)
             /\ speech' = IdleSpeech
    /\ UNCHANGED <<storyVars, md, doc>>

AudioInit ==
    /\ files \in AudioDirs
    /\ env = InitialEnv
    /\ testmd = << >>
    /\ now = 2
    /\ req = [r \in Requests |-> IdleReq]
    /\ proc = [r \in Requests |-> NoProc]
    /\ speech = IdleSpeech
    /\ md = IdleMd
    /\ audio = IdleAudio
    /\ doc = IdleDoc

AudioNext ==
    \/ AudioArrive
    \/ AudioAfterRun
    \/ SpeechNext

AudioSpec == AudioInit /\ [][AudioNext]_vars

\* the story files with the greatest modification time, of any theme
NewestStory == {f \in files : \A g \in files : g.mtime <= f.mtime}

\* C37: an audio request runs generate_speech_baidu at most twice; the second
\* run starts only after the first has returned False while a story file
\* exists, with the plain text of the most recently modified story file; the
\* request answers with an audio URL exactly if its last run returned True.
C37_SecondRun ==
    [][/\ audio'.runs <= 2
       /\ (audio.runs = 1 /\ audio'.runs = 2)
          => /\ speech.pc = "done" /\ speech.ret = "False"
             /\ \E f \in NewestStory :
                   speech'.input = extract_plain_text(StoryText(f.content))
       /\ (audio.pc = "run" /\ audio'.pc = "done")
          => /\ speech.pc = "done"
             /\ audio'.resp.audio_url <=> speech.ret = "True"
             /\ audio'.resp.audio_url <=> audio'.resp.code = 200]_vars

\* a second run on the text of the newer of two story files returned True and
\* the request was answered with an audio URL
C37_Witness ==
    /\ audio.pc = "done" /\ audio.runs = 2
    /\ audio.resp.audio_url
    /\ \E f, g \in files : g.mtime < f.mtime


(***************************************************************************)
(* The server with both handlers.  They share the story directory only,    *)
(* which generate_audio reads.  Requests of one kind are accepted at a     *)
(* time: a story request arrives while no audio request has been accepted  *)
(* and the other way round; a rejected request (400) does not count.  One  *)
(* story request is enough here: what the properties below say of a        *)
(* request does not depend on the other requests.                          *)
(***************************************************************************)
ServerRequests == {1}

StoryAccepted ==
    \E r \in Requests : req[r].pc # "idle" /\ req[r].resp.code # 400

AudioAccepted == audio.pc # "idle" /\ audio.resp.code # 400

ServerNext ==
    \/ ~AudioAccepted /\ \E r \in ServerRequests : Handler(r)
    \/ ~AudioAccepted /\ \E r \in ServerRequests : Generator(r)
    \/ ~AudioAccepted /\ Tick
    \/ ~StoryAccepted /\ AudioNext

ServerSpec == StoryInit /\ [][ServerNext]_vars

\* the error message of a generate_story response (lines 87, 247, 258, 270,
\* 274 and 311-314; the exception of line 191 names the script)
ErrorMessage(error) ==
    CASE error = "" -> << >>
      [] error = "empty theme" -> <<"theme must not be empty">>
      [] error = "timeout" -> <<"story generation timed out">>
      [] error = "no story" -> <<"no story file found">>
      [] error = "empty content" -> <<"the story is empty">>
      [] error = "unreadable" ->
            <<"cannot read the story file: ", "no such file">>
      [] error = "exception" ->
            <<"error while handling the request: ",
              "story generator script not found">>

(***************************************************************************)
(* Properties of the request handlers.                                     *)
(***************************************************************************)
\* C16: a story request without theme and an audio request without text are
\* answered 400 and leave everything else as it was: no file, no setting, no
\* process, no provider call.
C16_RejectedBeforeEffects ==
    [][/\ \A r \in Requests :
             (req[r].pc = "idle" /\ req'[r].pc # "idle" /\ req'[r].theme = << >>)
             => /\ req'[r].pc = "done" /\ req'[r].resp.code = 400
                /\ ~req'[r].launched
                /\ UNCHANGED <<files, env, testmd, proc, speech, audio>>
       /\ (audio.pc = "idle" /\ audio'.pc # "idle" /\ audio'.text = << >>)
             => /\ audio'.pc = "done" /\ audio'.resp.code = 400
                /\ ~audio'.probed /\ audio'.runs = 0 /\ ~audio'.written
                /\ UNCHANGED <<files, env, testmd, proc, speech, req>>]_vars

\* a story request and an audio request have both been rejected
C16_Witness ==
    /\ \E r \in Requests :
          req[r].pc = "done" /\ req[r].theme = << >> /\ req[r].resp.code = 400
    /\ audio.pc = "done" /\ audio.text = << >> /\ audio.resp.code = 400

\* C17: the runs of one audio request send at most one creation request.
C17_OneTaskPerRequest == audio.creates + speech.calls.create <= 1

\* C18: no error message of a story or audio response holds the API key, the
\* secret key or the access token.
C18_NoCredentialInError ==
    /\ \A r \in Requests :
          \A k \in 1..Len(ErrorMessage(req[r].resp.error)) :
             ErrorMessage(req[r].resp.error)[k] \notin CredentialValues
    /\ \A k \in 1..Len(audio.resp.error) :
          audio.resp.error[k] \notin CredentialValues

\* an audio request failed after two runs that sent requests with the token,
\* and a story request was answered with an error
C18_Witness ==
    /\ audio.pc = "done" /\ audio.resp.code = 500 /\ audio.runs = 2
    /\ audio.creates = 2
    /\ \E r \in Requests : req[r].pc = "done" /\ req[r].resp.error # ""

====
